---- MODULE Spec2Model ----
(***************************************************************************)
(* Assessment session lifecycle and background video-analysis pipeline of  *)
(* the edutech backend.                                                    *)
(*                                                                         *)
(* The persisted tables are sets of rows (records with an id).  Two table  *)
(* families exist side by side: the original one (assessment_models.py,    *)
(* services/assessment_service.py, routes/assessments.py) and the enhanced *)
(* one (enhanced_assessment_models.py, enhanced_assessment_service.py,     *)
(* routes/enhanced_assessments.py, routes/enhanced_assessment_api.py).     *)
(***************************************************************************)
EXTENDS Integers, Sequences, FiniteSets, Bags, TLC

(***************************************************************************)
(* Bounds of the model.                                                    *)
(***************************************************************************)
MaxUsers == 2
MaxSessions == 1
MaxRecordings == 2
MaxAnalyses == 2
MaxFiles == 1
MaxEnhSessions == 1
NumQuestions == 2
MaxResponses == 2
MaxRows == 2
MaxSubmits == 2
MaxClock == 1
MaxStamp == 3
MaxDuration == 1
MaxAnswers == 1
MaxCopies == 1
MaxFrames == 2

Users == 1..MaxUsers

(***************************************************************************)
(* Persisted state (original tables), the background-task queue and the    *)
(* outcome of the most recent handler or task step.                        *)
(***************************************************************************)
VARIABLES assessment_sessions, video_recordings, video_analysis_results,
          background_tasks, files, last

(***************************************************************************)
(* The assessment_responses table, the directories that exist for          *)
(* downloads and the files copied into them.                               *)
(***************************************************************************)
VARIABLES assessment_responses, folders, copies

(***************************************************************************)
(* Persisted state (enhanced tables), the submit request being served and  *)
(* the wall clock read by datetime.utcnow() / datetime.now().              *)
(***************************************************************************)
VARIABLES enhanced_questions, enhanced_sessions, enhanced_responses,
          enhanced_video_recordings, mock_video_analysis, req, now

(***************************************************************************)
(* Module state of routes/video_analysis.py (the live capture): the three  *)
(* globals, the emotions log file, and the position of the process-frame   *)
(* and start-capture requests being served.                                *)
(***************************************************************************)
VARIABLES capture_running, latest_emotion, latest_emotions_list, emotions_log,
          frame_req, start_req

captureVars == <<capture_running, latest_emotion, latest_emotions_list, emotions_log,
                 frame_req, start_req>>

videoVars == <<assessment_sessions, video_recordings, video_analysis_results,
               background_tasks, files, assessment_responses, folders, copies>>

enhancedVars == <<enhanced_questions, enhanced_sessions, enhanced_responses,
                  enhanced_video_recordings, mock_video_analysis, req, now>>

vars == <<assessment_sessions, video_recordings, video_analysis_results,
          background_tasks, files, last, assessment_responses, folders, copies,
          enhanced_questions, enhanced_sessions, enhanced_responses,
          enhanced_video_recordings, mock_video_analysis, req, now,
          capture_running, latest_emotion, latest_emotions_list, emotions_log,
          frame_req, start_req>>

(***************************************************************************)
(* Helpers for tables.                                                     *)
(***************************************************************************)
SetMax(S) == CHOOSE x \in S : \A y \in S : y <= x

\* primary key handed out by the database for the next inserted row
NextId(table) == IF table = {} THEN 1 ELSE SetMax({row.id : row \in table}) + 1

\* a file name not yet on disk (the upload route draws a uuid4 name)
NextPath(paths) == IF paths = {} THEN 1 ELSE SetMax(paths) + 1

\* query(...).filter(id == k).first(): the set holds zero or one row
ById(table, k) == {row \in table : row.id = k}

\* the row with the smallest id, as .first() returns it
First(rows) == CHOOSE row \in rows : \A other \in rows : row.id <= other.id

\* background tasks carry no key of their own: the queue is a bag of tasks
AddTask(tasks, t) == tasks (+) SetToBag({t})
DropTask(tasks, t) == tasks (-) SetToBag({t})

\* a NULL timestamp or duration column
Null == -1

\* a nullable Float column: None, or Some(v)
None == <<>>
Some(v) == <<v>>

\* a float kept exact: the reduced fraction num / den
RECURSIVE GCD(_, _)
GCD(a, b) == IF b = 0 THEN a ELSE GCD(b, a % b)

Abs(x) == IF x < 0 THEN -x ELSE x

Frac(n, d) == LET g == GCD(Abs(n), d) IN [num |-> n \div g, den |-> d \div g]

\* video_analysis.py lines 50-53 as the module is loaded; no request in flight
CaptureIdle ==
    /\ capture_running = FALSE
    /\ latest_emotion = None
    /\ latest_emotions_list = <<>>
    /\ emotions_log = None
    /\ frame_req = [pc |-> "idle"]
    /\ start_req = [pc |-> "idle"]

\* no submit request is being served
NoReq == [pc |-> "idle", route |-> "none", session_id |-> 0, recording_id |-> 0,
          responses |-> <<>>,
          result |-> [total_score |-> 0, max_score |-> 0, percentage |-> Frac(0, 1)]]

Outcome(op, code, rid, before) ==
    [op |-> op, code |-> code, rid |-> rid, before |-> before]

(***************************************************************************)
(* Columns of the video_recordings table.  Attributes assigned on a loaded *)
(* VideoRecording object that are not columns stay on the Python object    *)
(* and are not written by commit.                                          *)
(***************************************************************************)
VideoRecordingColumns == {"id", "session_id", "video_file_path", "processing_status"}

\* every attribute of the object written to the row
Persist_AllAttributes(obj) == obj

\* commit writes the mapped columns of the object
Persist(obj) == [c \in VideoRecordingColumns |-> obj[c]]

\* AssessmentService.get_session_by_id(db, session_id, user_id)
get_session_by_id(session_id, user_id) ==
    {s \in assessment_sessions : s.id = session_id /\ s.user_id = user_id}

(***************************************************************************)
(* AssessmentService.create_assessment_session                             *)
(***************************************************************************)
CreateAssessmentSession(u) ==
    /\ UNCHANGED <<assessment_responses, folders, copies>>
    /\ NextId(assessment_sessions) <= MaxSessions
    /\ assessment_sessions' = assessment_sessions \cup
          {[id |-> NextId(assessment_sessions), user_id |-> u, status |-> "in_progress",
            started_at |-> now, completed_at |-> Null, total_score |-> None,
            max_score |-> None, percentage |-> None, time_taken_seconds |-> Null]}
    /\ last' = Outcome("create_session", 200, NextId(assessment_sessions), "none")
    /\ UNCHANGED <<video_recordings, video_analysis_results, background_tasks, files>>
    /\ UNCHANGED enhancedVars
    /\ UNCHANGED captureVars

(***************************************************************************)
(* AssessmentService.save_video_recording: the registrar.  The session id  *)
(* is not validated.                                                       *)
(***************************************************************************)
SaveVideoRecording(session_id, video_file_path) ==
    /\ UNCHANGED <<assessment_responses, folders, copies>>
    /\ NextId(video_recordings) <= MaxRecordings
    /\ video_recordings' = video_recordings \cup
          {[id |-> NextId(video_recordings), session_id |-> session_id,
            video_file_path |-> video_file_path,
            processing_status |-> "pending"]}
    /\ last' = Outcome("register", 200, NextId(video_recordings), "none")
    /\ UNCHANGED <<assessment_sessions, video_analysis_results, background_tasks, files>>
    /\ UNCHANGED enhancedVars
    /\ UNCHANGED captureVars

(***************************************************************************)
(* Optional query parameters of the upload route.  Timestamps are counted  *)
(* in ticks of half a second, so that the difference of two timestamps is  *)
(* not always a whole number of seconds.                                   *)
(***************************************************************************)
TicksPerSecond == 2

OptionalStamps == {None} \cup {Some(t) : t \in 0..MaxStamp}

OptionalDurations == {None} \cup {Some(d) : d \in -1..MaxDuration}

\* int(x) of Python for the quotient n / d: rounds toward zero
TruncToInt(n, d) == IF n >= 0 THEN n \div d ELSE -((-n) \div d)

\* lines 189-195: the defaults and the duration handed to the registrar
UploadDuration(recording_started, recording_ended, video_duration) ==
    LET started == IF recording_started = None THEN now * TicksPerSecond
                   ELSE recording_started[1]
        ended == IF recording_ended = None THEN now * TicksPerSecond
                 ELSE recording_ended[1]
    IN IF video_duration = None \/ video_duration = Some(0)
       THEN TruncToInt(ended - started, TicksPerSecond)
       ELSE video_duration[1]

(***************************************************************************)
(* routes/assessments.py upload_assessment_video.  After the ownership     *)
(* check the bytes are written under a fresh name and the duration is      *)
(* defaulted (UploadDuration); the call of save_video_recording then passes*)
(* recording_started_at= and recording_ended_at=, names the registrar does *)
(* not have, so Python raises TypeError before the registrar runs: no      *)
(* recording row is made, nothing is dispatched and the request ends as a  *)
(* server error.                                                           *)
(***************************************************************************)
UploadAssessmentVideo(u, session_id) ==
    /\ UNCHANGED <<assessment_responses, folders, copies>>
    /\ UNCHANGED enhancedVars
    /\ UNCHANGED captureVars
    /\ IF get_session_by_id(session_id, u) = {}
       THEN /\ last' = [op |-> "upload", code |-> 404, rid |-> 0, before |-> "none",
                        detail |-> "Assessment session not found"]
            /\ UNCHANGED videoVars
       ELSE \/ /\ last' = [op |-> "upload", code |-> 500, rid |-> 0, before |-> "none",
                           detail |-> "Failed to save video file"]
               /\ UNCHANGED videoVars
            \/ /\ NextPath(files) <= MaxFiles
               /\ files' = files \cup {NextPath(files)}
               /\ last' = [op |-> "upload", code |-> 500, rid |-> 0, before |-> "none",
                           detail |-> "TypeError"]
               /\ UNCHANGED <<assessment_sessions, video_recordings, video_analysis_results,
                              background_tasks>>

(***************************************************************************)
(* routes/assessments.py analyze_video_recording: the manual dispatch.     *)
(* It only queues the background task and answers; the recording row is    *)
(* not written by the route.                                               *)
(***************************************************************************)
AnalyzeVideoRecording(u, recording_id) ==
    /\ UNCHANGED <<assessment_responses, folders, copies>>
    /\ UNCHANGED enhancedVars
    /\ UNCHANGED captureVars
    /\ LET found == ById(video_recordings, recording_id) IN
       IF found = {}
       THEN /\ last' = Outcome("analyze", 404, recording_id, "none")
            /\ UNCHANGED videoVars
       ELSE LET recording == First(found) IN
         IF get_session_by_id(recording.session_id, u) = {}
         THEN /\ last' = Outcome("analyze", 403, recording_id, recording.processing_status)
              /\ UNCHANGED videoVars
         ELSE /\ NextId(video_analysis_results) + BagCardinality(background_tasks) <= MaxAnalyses
              /\ background_tasks' = AddTask(background_tasks,
                    [recording_id |-> recording_id, pc |-> "queued",
                     dispatched_on |-> recording.processing_status,
                     loaded |-> FALSE])
              /\ last' = Outcome("analyze", 200, recording_id, recording.processing_status)
              /\ UNCHANGED <<assessment_sessions, video_recordings,
                             video_analysis_results, files>>

(***************************************************************************)
(* VideoAnalysisService.process_video_analysis, first commit: load the     *)
(* recording and mark it "processing".  The task keeps the loaded object   *)
(* (or None) for its later writes.                                         *)
(***************************************************************************)
TaskStart(t) ==
    /\ UNCHANGED <<assessment_responses, folders, copies>>
    /\ BagIn(t, background_tasks)
    /\ t.pc = "queued"
    /\ LET found == ById(video_recordings, t.recording_id) IN
       /\ video_recordings' =
             IF found = {} THEN video_recordings
             ELSE (video_recordings \ found) \cup
                     {Persist([First(found) EXCEPT !.processing_status = "processing"])}
       /\ background_tasks' = AddTask(DropTask(background_tasks, t), [t EXCEPT !.pc = "analyzing", !.loaded = (found # {})])
       /\ last' = Outcome("task_start", 0, t.recording_id,
                          IF found = {} THEN "none" ELSE First(found).processing_status)
    /\ UNCHANGED <<assessment_sessions, video_analysis_results, files>>
    /\ UNCHANGED enhancedVars
    /\ UNCHANGED captureVars

(***************************************************************************)
(* process_video_analysis, analyzer returned: add the result row, mark the *)
(* recording "completed", one commit for both.  With no recording loaded   *)
(* only the result row is added.  With a recording loaded the commit       *)
(* updates the row of that id; when that row has been deleted meanwhile    *)
(* the update matches no row, the flush raises and nothing is written.     *)
(***************************************************************************)
\* the status left as it was when the analyzer returned
SuccessStatus_StillProcessing == "processing"

\* line 339: recording.processing_status = "completed"
SuccessStatus == "completed"

\* the rows a commit of the loaded recording with a new status leaves
WriteStatus(found, status) ==
    (video_recordings \ found) \cup
        {Persist([First(found) EXCEPT !.processing_status = status])}

TaskSucceed(t) ==
    /\ UNCHANGED <<assessment_responses, folders, copies>>
    /\ BagIn(t, background_tasks)
    /\ t.pc = "analyzing"
    /\ LET found == ById(video_recordings, t.recording_id) IN
       IF t.loaded /\ found = {}
       THEN /\ UNCHANGED <<video_analysis_results, video_recordings>>
            /\ last' = Outcome("task_stale", 0, t.recording_id, t.dispatched_on)
       ELSE /\ video_analysis_results' = video_analysis_results \cup
                  {[id |-> NextId(video_analysis_results),
                    video_recording_id |-> t.recording_id]}
            /\ video_recordings' =
                  IF t.loaded THEN WriteStatus(found, SuccessStatus) ELSE video_recordings
            /\ last' = Outcome("task_success", 0, t.recording_id, t.dispatched_on)
    /\ background_tasks' = DropTask(background_tasks, t)
    /\ UNCHANGED <<assessment_sessions, files>>
    /\ UNCHANGED enhancedVars
    /\ UNCHANGED captureVars

(***************************************************************************)
(* process_video_analysis, analyzer raised e: the handler marks the        *)
(* recording "failed", assigns error_message = str(e) on the loaded object *)
(* and commits.  The object is the mapped row plus the assigned attribute. *)
(***************************************************************************)
ErrorMessages == {"analyzer error"}

WithErrorMessage(recording, msg) ==
    [c \in DOMAIN recording \cup {"error_message"} |->
        IF c = "error_message" THEN msg ELSE recording[c]]

FailedStatus == "failed"

\* line 351: raise e ends the task; nothing puts it back on the queue
TasksAfterFailure(tasks, t) == DropTask(tasks, t)

TaskFail(t, msg) ==
    /\ UNCHANGED <<assessment_responses, folders, copies>>
    /\ BagIn(t, background_tasks)
    /\ t.pc = "analyzing"
    /\ LET found == ById(video_recordings, t.recording_id) IN
       /\ video_recordings' =
             IF ~t.loaded \/ found = {} THEN video_recordings
             ELSE (video_recordings \ found) \cup
                     {Persist(WithErrorMessage(
                         [First(found) EXCEPT !.processing_status = FailedStatus], msg))}
       /\ last' = Outcome(IF t.loaded /\ found = {} THEN "task_stale" ELSE "task_failure",
                          0, t.recording_id, t.dispatched_on)
    /\ background_tasks' = TasksAfterFailure(background_tasks, t)
    /\ UNCHANGED <<assessment_sessions, video_analysis_results, files>>
    /\ UNCHANGED enhancedVars
    /\ UNCHANGED captureVars

(***************************************************************************)
(* routes/assessments.py submit_assessment_responses with                  *)
(* AssessmentService.save_assessment_responses: after the ownership check  *)
(* one row per submitted response is stored; nothing is scored.            *)
(***************************************************************************)
RECURSIVE SaveAssessmentResponses(_, _, _)
SaveAssessmentResponses(rows, session_id, question_ids) ==
    IF question_ids = <<>> THEN rows
    ELSE SaveAssessmentResponses(
            rows \cup {[id |-> NextId(rows), session_id |-> session_id,
                        question_id |-> Head(question_ids)]},
            session_id, Tail(question_ids))

\* the question ids of a submitted list of responses; the ids are stored as
\* they come, the question table is not consulted
QuestionIdLists == {[i \in 1..n |-> i] : n \in 0..MaxAnswers}

SubmitAssessmentResponses(u, session_id, question_ids) ==
    /\ UNCHANGED <<assessment_sessions, video_recordings, video_analysis_results,
                   background_tasks, files, folders, copies>>
    /\ UNCHANGED enhancedVars
    /\ UNCHANGED captureVars
    /\ IF get_session_by_id(session_id, u) = {}
       THEN /\ last' = [op |-> "responses", code |-> 404, rid |-> 0, before |-> "none",
                        detail |-> "Assessment session not found"]
            /\ UNCHANGED assessment_responses
       ELSE /\ NextId(assessment_responses) + Len(question_ids) <= MaxAnswers + 1
            /\ assessment_responses' =
                  SaveAssessmentResponses(assessment_responses, session_id, question_ids)
            /\ last' = [op |-> "responses", code |-> 200, rid |-> 0, before |-> "none",
                        detail |-> "Responses saved successfully"]

(***************************************************************************)
(* The download: VideoDownloadService.prepare_video_for_download, then     *)
(* AssessmentService.save_video_to_user_location inside the route's try.   *)
(***************************************************************************)
\* str(Path.home() / "Downloads"); the directory is not created by the code
DefaultFolder == "Downloads"

CustomFolder == "custom"

\* the download_folder query parameter
DownloadFolders == {None, Some(CustomFolder)}

\* recordings of a session, as query(VideoRecording).filter(session_id == ..)
RecordingsOf(session_id) == {r \in video_recordings : r.session_id = session_id}

\* os.path.exists(recording.video_file_path)
SourceExists(recording) == recording.video_file_path \in files

\* one text for a missing recording and for a missing file
PrepareError_Generic(session_id, user_id) ==
    IF get_session_by_id(session_id, user_id) = {}
    THEN "Session not found or access denied"
    ELSE IF RecordingsOf(session_id) = {} \/ ~SourceExists(First(RecordingsOf(session_id)))
    THEN "Video not available"
    ELSE ""

\* lines 371-392: the error of the preparation, "" when it succeeds
PrepareError(session_id, user_id) ==
    IF get_session_by_id(session_id, user_id) = {}
    THEN "Session not found or access denied"
    ELSE IF RecordingsOf(session_id) = {}
    THEN "No video recording found for this session"
    ELSE IF ~SourceExists(First(RecordingsOf(session_id)))
    THEN "Video file not found on server"
    ELSE ""

\* lines 101-113: the folder the copy goes to
get_video_download_path(user_specified_path) ==
    IF user_specified_path # None THEN user_specified_path[1] ELSE DefaultFolder

\* lines 139-142: folder/assessment_video_session_<id>_<timestamp>.webm
DestinationPath(folder, session_id) ==
    [folder |-> folder, session_id |-> session_id, timestamp |-> now]

\* lines 148-149: attributes assigned on the loaded recording
WithDownload(recording, destination_path) ==
    [c \in DOMAIN recording \cup {"download_path", "last_downloaded_at"} |->
        IF c = "download_path" THEN destination_path
        ELSE IF c = "last_downloaded_at" THEN now
        ELSE recording[c]]

\* the commit writing the recording with every attribute it carries, made
\* before the copy is attempted
DownloadCommit_BeforeCopy(recording, destination_path, copied) ==
    WithDownload(recording, destination_path)

\* lines 145-150: the attributes are assigned and committed only after
\* shutil.copy2 has returned
DownloadCommit(recording, destination_path, copied) ==
    IF copied THEN Persist(WithDownload(recording, destination_path)) ELSE recording

DownloadVideoRecording(u, session_id, download_folder) ==
    /\ UNCHANGED <<assessment_sessions, video_analysis_results, background_tasks, files,
                   assessment_responses>>
    /\ UNCHANGED enhancedVars
    /\ UNCHANGED captureVars
    /\ LET error == PrepareError(session_id, u) IN
       IF error # ""
       THEN /\ last' = [op |-> "download", code |-> 404, rid |-> 0, before |-> "none",
                        session_id |-> session_id, user_id |-> u, detail |-> error]
            /\ UNCHANGED <<video_recordings, folders, copies>>
       ELSE LET recording == First(RecordingsOf(session_id))
                folder == get_video_download_path(download_folder)
                destination_path == DestinationPath(folder, recording.session_id)
            IN \* mkdir(parents=True, exist_ok=True) of a user-specified folder
               /\ folders' = IF download_folder # None THEN folders \cup {folder}
                             ELSE folders
               /\ \E copied \in BOOLEAN :
                     \* shutil.copy2 raises when the folder is missing or the copy fails
                     /\ copied => folder \in folders'
                     /\ copied => Cardinality(copies \cup {destination_path}) <= MaxCopies
                     /\ copies' = IF copied THEN copies \cup {destination_path} ELSE copies
                     /\ video_recordings' = (video_recordings \ {recording}) \cup
                           {DownloadCommit(recording, destination_path, copied)}
                     /\ last' = IF copied
                                THEN [op |-> "download", code |-> 200, rid |-> recording.id,
                                      before |-> "none", session_id |-> session_id,
                                      user_id |-> u,
                                      detail |-> "Video downloaded successfully",
                                      download_folder |-> download_folder,
                                      destination_path |-> destination_path]
                                ELSE [op |-> "download", code |-> 500, rid |-> recording.id,
                                      before |-> "none", session_id |-> session_id,
                                      user_id |-> u,
                                      detail |-> "Failed to download video"]

(***************************************************************************)
(* routes/assessments.py delete_assessment_session with                    *)
(* AssessmentService.delete_assessment_session: the owner's session, its   *)
(* responses, recordings and their analysis rows go in one commit; each    *)
(* recording file on disk is removed, an OSError of os.remove is skipped.  *)
(***************************************************************************)
\* the analysis rows left in place
AnalysesAfterDelete_Kept(recordings) == video_analysis_results

\* lines 226-230: the analysis rows of each recording of the session go
AnalysesAfterDelete(recordings) ==
    {a \in video_analysis_results : \A r \in recordings : a.video_recording_id # r.id}

DeleteAssessmentSession(u, session_id) ==
    /\ UNCHANGED <<background_tasks, folders, copies>>
    /\ UNCHANGED enhancedVars
    /\ UNCHANGED captureVars
    /\ IF get_session_by_id(session_id, u) = {}
       THEN /\ last' = [op |-> "delete", code |-> 404, rid |-> 0, before |-> "none",
                        session_id |-> session_id, user_id |-> u,
                        detail |-> "Assessment session not found or access denied"]
            /\ UNCHANGED <<assessment_sessions, assessment_responses, video_recordings,
                           video_analysis_results, files>>
       ELSE LET recordings == RecordingsOf(session_id)
                on_disk == {r.video_file_path : r \in recordings} \cap files
            IN /\ assessment_responses' =
                     {a \in assessment_responses : a.session_id # session_id}
               /\ video_analysis_results' = AnalysesAfterDelete(recordings)
               /\ \E not_removed \in SUBSET on_disk :
                     /\ files' = files \ (on_disk \ not_removed)
                     /\ last' = [op |-> "delete", code |-> 200, rid |-> 0,
                                 before |-> "none", session_id |-> session_id,
                                 user_id |-> u,
                                 detail |-> "Assessment session deleted successfully",
                                 recording_ids |-> {r.id : r \in recordings},
                                 response_rows |->
                                     Cardinality(assessment_responses
                                                    \ assessment_responses'),
                                 analysis_rows |->
                                     Cardinality(video_analysis_results
                                                    \ video_analysis_results'),
                                 on_disk |-> on_disk,
                                 remove_failed |-> not_removed]
               /\ video_recordings' = video_recordings \ recordings
               /\ assessment_sessions' =
                     assessment_sessions \ get_session_by_id(session_id, u)

(***************************************************************************)
(* AssessmentResultsService.get_comprehensive_results behind               *)
(* routes/assessments.py get_complete_session_result: a read-only join of  *)
(* the session, its responses, its first recording and that recording's    *)
(* first analysis row.                                                     *)
(***************************************************************************)
\* VideoAnalysisResult.to_dict comes from models/base.py, which is not among
\* the sources; it is taken to return the row's columns as a dict
to_dict(row) == row

\* the column default reported for a session without a recording
RecordingStatus_Default(recordings) ==
    IF recordings = {} THEN Some("pending")
    ELSE Some(First(recordings).processing_status)

\* line 478: recording.processing_status if recording else None
RecordingStatus(recordings) ==
    IF recordings = {} THEN None ELSE Some(First(recordings).processing_status)

\* lines 449-453 and 481
VideoAnalysisPart(recordings) ==
    IF recordings = {} THEN None
    ELSE LET analyses == {a \in video_analysis_results :
                             a.video_recording_id = First(recordings).id}
         IN IF analyses = {} THEN None ELSE Some(to_dict(First(analyses)))

get_comprehensive_results(session_id, user_id) ==
    LET found == get_session_by_id(session_id, user_id)
        recordings == RecordingsOf(session_id)
    IN IF found = {} THEN [error |-> "Session not found"]
       ELSE [error |-> "",
             session |-> [c \in DOMAIN First(found) \ {"user_id"} |-> First(found)[c]],
             responses |-> {[question_id |-> a.question_id] :
                               a \in {x \in assessment_responses :
                                         x.session_id = session_id}},
             video_recording |->
                 [exists |-> recordings # {},
                  processing_status |-> RecordingStatus(recordings),
                  download_available |->
                      IF recordings = {} THEN None
                      ELSE Some(SourceExists(First(recordings)))],
             video_analysis |-> VideoAnalysisPart(recordings)]

GetCompleteSessionResult(u, session_id) ==
    /\ UNCHANGED videoVars
    /\ UNCHANGED captureVars
    /\ UNCHANGED enhancedVars
    /\ LET results == get_comprehensive_results(session_id, u) IN
       last' = IF get_session_by_id(session_id, u) = {}
               THEN [op |-> "results", code |-> 404, rid |-> 0, before |-> "none",
                     session_id |-> session_id, user_id |-> u,
                     detail |-> "Assessment session not found"]
               ELSE IF results.error # ""
               THEN [op |-> "results", code |-> 404, rid |-> 0, before |-> "none",
                     session_id |-> session_id, user_id |-> u,
                     detail |-> results.error]
               ELSE [op |-> "results", code |-> 200, rid |-> 0, before |-> "none",
                     session_id |-> session_id, user_id |-> u,
                     detail |-> "", results |-> results]

InitVideo ==
    /\ CaptureIdle
    /\ assessment_sessions = {}
    /\ video_recordings = {}
    /\ video_analysis_results = {}
    /\ background_tasks = EmptyBag
    /\ files = {}
    /\ assessment_responses = {}
    /\ folders = {}
    /\ copies = {}
    /\ last = Outcome("init", 0, 0, "none")
    /\ enhanced_questions = {}
    /\ enhanced_sessions = {}
    /\ enhanced_responses = {}
    /\ enhanced_video_recordings = {}
    /\ mock_video_analysis = {}
    /\ req = NoReq
    /\ now = 0

NextVideo ==
    \/ \E u \in Users : CreateAssessmentSession(u)
    \/ \E s \in 1..MaxSessions, p \in 1..MaxFiles : SaveVideoRecording(s, p)
    \/ \E u \in Users, s \in 1..(MaxSessions + 1) : UploadAssessmentVideo(u, s)
    \/ \E u \in Users, r \in 1..(MaxRecordings + 1) : AnalyzeVideoRecording(u, r)
    \/ \E t \in BagToSet(background_tasks) : TaskStart(t)
    \/ \E t \in BagToSet(background_tasks) : TaskSucceed(t)
    \/ \E t \in BagToSet(background_tasks), msg \in ErrorMessages : TaskFail(t, msg)

SpecVideo == InitVideo /\ [][NextVideo]_vars

(***************************************************************************)
(* Scheduling of the background tasks.  The framework runs every task that *)
(* a request added once the response is sent, and a started task runs on   *)
(* until the analyzer has returned or raised: no task that can take its    *)
(* next step is left waiting forever.                                      *)
(***************************************************************************)
\* every task record the queue can hold
TaskRecords ==
    [recording_id : 1..MaxRecordings, pc : {"queued", "analyzing"},
     dispatched_on : {"pending", "processing", "completed", "failed"},
     loaded : BOOLEAN]

FinishTask(t) == TaskSucceed(t) \/ \E msg \in ErrorMessages : TaskFail(t, msg)

FairSpecVideo ==
    /\ SpecVideo
    /\ \A t \in TaskRecords : WF_vars(TaskStart(t)) /\ WF_vars(FinishTask(t))

(***************************************************************************)
(* routes/assessments.py get_video_processing_status: the reader of a      *)
(* recording's status.  After the lookup and the ownership check the       *)
(* response is built from attributes of the loaded row; reading an         *)
(* attribute the row does not have raises AttributeError, which the route  *)
(* does not catch.                                                         *)
(***************************************************************************)
\* the attributes line 447-452 read from the loaded recording
StatusAttributes == {"processing_status", "error_message"}

StatusBody(recording) ==
    [recording_id |-> recording.id,
     processing_status |-> recording.processing_status,
     analysis_available |->
        ({a \in video_analysis_results : a.video_recording_id = recording.id} # {}),
     error_message |-> recording.error_message]

StatusOutcome(code, recording_id, before, detail, body) ==
    [op |-> "status", code |-> code, rid |-> recording_id, before |-> before,
     detail |-> detail, body |-> body]

GetVideoProcessingStatus(u, recording_id) ==
    /\ UNCHANGED videoVars
    /\ UNCHANGED captureVars
    /\ UNCHANGED enhancedVars
    /\ LET found == ById(video_recordings, recording_id) IN
       last' =
          IF found = {}
          THEN StatusOutcome(404, recording_id, "none", "Video recording not found", None)
          ELSE LET recording == First(found) IN
               IF get_session_by_id(recording.session_id, u) = {}
               THEN StatusOutcome(403, recording_id, recording.processing_status,
                                  "Not authorized to access this recording", None)
               ELSE IF StatusAttributes \subseteq DOMAIN recording
               THEN StatusOutcome(200, recording_id, recording.processing_status, "",
                                  Some(StatusBody(recording)))
               ELSE StatusOutcome(500, recording_id, recording.processing_status,
                                  "AttributeError", None)

(***************************************************************************)
(* The original tables with the status reader.                             *)
(***************************************************************************)
NextStatus ==
    \/ NextVideo
    \/ \E u \in Users, r \in 1..(MaxRecordings + 1) : GetVideoProcessingStatus(u, r)

SpecStatus == InitVideo /\ [][NextStatus]_vars

(***************************************************************************)
(* The original tables with the download.                                  *)
(***************************************************************************)
NextDownload ==
    \/ NextVideo
    \/ \E u \in Users, s \in 1..(MaxSessions + 1), download_folder \in DownloadFolders :
          DownloadVideoRecording(u, s, download_folder)

\* the server's home directory may or may not hold a Downloads folder
InitDownload ==
    /\ CaptureIdle
    /\ assessment_sessions = {}
    /\ video_recordings = {}
    /\ video_analysis_results = {}
    /\ background_tasks = EmptyBag
    /\ files = {}
    /\ assessment_responses = {}
    /\ folders \in {{}, {DefaultFolder}}
    /\ copies = {}
    /\ last = Outcome("init", 0, 0, "none")
    /\ enhanced_questions = {}
    /\ enhanced_sessions = {}
    /\ enhanced_responses = {}
    /\ enhanced_video_recordings = {}
    /\ mock_video_analysis = {}
    /\ req = NoReq
    /\ now = 0

SpecDownload == InitDownload /\ [][NextDownload]_vars

(***************************************************************************)
(* The original tables with stored responses and the results aggregation.  *)
(***************************************************************************)
NextResults ==
    \/ \E u \in Users : CreateAssessmentSession(u)
    \/ \E s \in 1..MaxSessions, p \in 1..MaxFiles : SaveVideoRecording(s, p)
    \/ \E u \in Users, s \in 1..(MaxSessions + 1), question_ids \in QuestionIdLists :
          SubmitAssessmentResponses(u, s, question_ids)
    \/ \E u \in Users, r \in 1..(MaxRecordings + 1) : AnalyzeVideoRecording(u, r)
    \/ \E t \in BagToSet(background_tasks) : TaskStart(t)
    \/ \E t \in BagToSet(background_tasks) : TaskSucceed(t)
    \/ \E t \in BagToSet(background_tasks), msg \in ErrorMessages : TaskFail(t, msg)
    \/ \E u \in Users, s \in 1..(MaxSessions + 1) : GetCompleteSessionResult(u, s)

SpecResults == InitVideo /\ [][NextResults]_vars

(***************************************************************************)
(* The original tables with stored responses and the deletion of sessions. *)
(***************************************************************************)
NextDelete ==
    \/ \E u \in Users : CreateAssessmentSession(u)
    \/ \E s \in 1..MaxSessions, p \in 1..MaxFiles : SaveVideoRecording(s, p)
    \/ \E u \in Users, s \in 1..(MaxSessions + 1) : UploadAssessmentVideo(u, s)
    \/ \E u \in Users, r \in 1..(MaxRecordings + 1) : AnalyzeVideoRecording(u, r)
    \/ \E t \in BagToSet(background_tasks) : TaskStart(t)
    \/ \E t \in BagToSet(background_tasks) : TaskSucceed(t)
    \/ \E u \in Users, s \in 1..(MaxSessions + 1), question_ids \in QuestionIdLists :
          SubmitAssessmentResponses(u, s, question_ids)
    \/ \E u \in Users, s \in 1..(MaxSessions + 1) : DeleteAssessmentSession(u, s)

SpecDelete == InitVideo /\ [][NextDelete]_vars

(***************************************************************************)
(* Enhanced assessment flow.                                               *)
(***************************************************************************)
Answers == {"A", "a"}

\* one submitted response: response_data["question_id"], ["user_answer"]
ResponseData == [question_id : 1..(NumQuestions + 1), user_answer : Answers]

Submissions == UNION {[1..n -> ResponseData] : n \in 0..MaxResponses}

\* the questions written by initialize_assessment_data: one point each
SeedQuestions ==
    {[id |-> q, correct_answer |-> (IF q % 2 = 1 THEN "A" ELSE "a"), points |-> 1] :
        q \in 1..NumQuestions}

\* a question table filled by other means, with differing point values
WeightedQuestions ==
    {[id |-> q, correct_answer |-> (IF q % 2 = 1 THEN "A" ELSE "a"), points |-> q] :
        q \in 1..NumQuestions}

(***************************************************************************)
(* routes/enhanced_assessments.py get_assessment_types: seeds the sample   *)
(* data when the tables are empty.                                         *)
(***************************************************************************)
GetAssessmentTypes ==
    /\ req = NoReq
    /\ enhanced_questions = {}
    /\ enhanced_questions' = SeedQuestions
    /\ last' = Outcome("types", 200, 0, "none")
    /\ UNCHANGED <<enhanced_sessions, enhanced_responses, enhanced_video_recordings,
                   mock_video_analysis, req, now>>
    /\ UNCHANGED videoVars
    /\ UNCHANGED captureVars

(***************************************************************************)
(* EnhancedAssessmentService.start_assessment_session                      *)
(***************************************************************************)
StartAssessmentSession(u) ==
    /\ req = NoReq
    /\ Cardinality(enhanced_sessions) < MaxEnhSessions
    /\ enhanced_sessions' = enhanced_sessions \cup
          {[id |-> NextId(enhanced_sessions), user_id |-> u, status |-> "in_progress",
            total_score |-> 0, max_score |-> 0, percentage |-> Frac(0, 1),
            time_taken_seconds |-> 0, started_at |-> now, completed_at |-> Null]}
    /\ last' = Outcome("start", 200, NextId(enhanced_sessions), "none")
    /\ UNCHANGED <<enhanced_questions, enhanced_responses, enhanced_video_recordings,
                   mock_video_analysis, req, now>>
    /\ UNCHANGED videoVars
    /\ UNCHANGED captureVars

(***************************************************************************)
(* EnhancedAssessmentService.submit_assessment_responses: the scoring loop *)
(***************************************************************************)
\* answers compared after lower-casing
Lower(x) == IF x = "A" THEN "a" ELSE x

IsCorrect_IgnoreCase(user_answer, correct_answer) == Lower(user_answer) = Lower(correct_answer)

\* line 248: is_correct = response_data["user_answer"] == question.correct_answer
IsCorrect(user_answer, correct_answer) == user_answer = correct_answer

\* line 249: points_earned = question.points if is_correct else 0
PointsEarned(question, is_correct) == IF is_correct THEN question.points ELSE 0

\* every answered question counted as one point
MaxContribution_Count(question) == 1

\* line 262: max_score += question.points
MaxContribution(question) == question.points

\* line 267: (total_score / max_score * 100) if max_score > 0 else 0
EnhancedPercentage(total_score, max_score) ==
    IF max_score > 0 THEN Frac(total_score * 100, max_score) ELSE Frac(0, 1)

\* a row without points stored for the response all the same
SkipUnresolved_StoreRow(session_id, response_data, acc) ==
    [acc EXCEPT !.rows = @ \cup {[id |-> NextId(acc.rows), session_id |-> session_id,
                                  question_id |-> response_data.question_id,
                                  user_answer |-> response_data.user_answer,
                                  is_correct |-> FALSE, points_earned |-> 0]}]

\* line 247: "if question:" has no else; the response leaves no trace
SkipUnresolved(session_id, response_data, acc) == acc

\* lines 239-262: acc carries total_score, max_score and the response table
RECURSIVE ScoreLoop(_, _, _)
ScoreLoop(session_id, responses, acc) ==
    IF responses = <<>> THEN acc
    ELSE LET response_data == Head(responses)
             found == ById(enhanced_questions, response_data.question_id)
         IN IF found = {}
            THEN ScoreLoop(session_id, Tail(responses),
                           SkipUnresolved(session_id, response_data, acc))
            ELSE LET question == First(found)
                     is_correct == IsCorrect(response_data.user_answer,
                                             question.correct_answer)
                     points_earned == PointsEarned(question, is_correct)
                     response == [id |-> NextId(acc.rows), session_id |-> session_id,
                                  question_id |-> response_data.question_id,
                                  user_answer |-> response_data.user_answer,
                                  is_correct |-> is_correct,
                                  points_earned |-> points_earned]
                 IN ScoreLoop(session_id, Tail(responses),
                              [total_score |-> acc.total_score + points_earned,
                               max_score |-> acc.max_score + MaxContribution(question),
                               rows |-> acc.rows \cup {response}])

Scored(session_id, responses) ==
    ScoreLoop(session_id, responses,
              [total_score |-> 0, max_score |-> 0, rows |-> enhanced_responses])

\* lines 264-274: the session row after scoring
ScoredSession(session, scored) ==
    [session EXCEPT !.total_score = scored.total_score,
                    !.max_score = scored.max_score,
                    !.percentage = EnhancedPercentage(scored.total_score, scored.max_score),
                    !.status = "completed",
                    !.completed_at = now,
                    !.time_taken_seconds = now - session.started_at]

\* the whole service call, one commit; FALSE when the session does not resolve
SubmitResponses(session_id, responses) ==
    /\ ById(enhanced_sessions, session_id) # {}
    /\ LET session == First(ById(enhanced_sessions, session_id))
           scored == Scored(session_id, responses)
       IN /\ Cardinality(scored.rows) <= MaxRows
          /\ enhanced_responses' = scored.rows
          /\ enhanced_sessions' =
                (enhanced_sessions \ {session}) \cup {ScoredSession(session, scored)}

\* the service answering without an error text
ServiceError_Blank(session_id) == ""

\* lines 231-237: the error the service returns, "" when the session resolves
ServiceError(session_id) ==
    IF ById(enhanced_sessions, session_id) = {} THEN "Session not found" ELSE ""

ServiceResult(session_id, responses) ==
    LET scored == Scored(session_id, responses) IN
    [total_score |-> scored.total_score, max_score |-> scored.max_score,
     percentage |-> EnhancedPercentage(scored.total_score, scored.max_score)]

(***************************************************************************)
(* routes/enhanced_assessments.py submit_assessment_session, up to the     *)
(* commit of the service.  An empty response list is refused; the refusal  *)
(* and a service error are raised inside the try and leave as status 500.  *)
(***************************************************************************)
\* the empty list let through to the scoring service
RefusesEmpty_Never(responses) == FALSE

RefusesEmpty(responses) == responses = <<>>

SubmitAssessmentSession(session_id, responses) ==
    /\ req = NoReq
    /\ Cardinality(enhanced_video_recordings) < MaxSubmits
    /\ UNCHANGED <<enhanced_questions, enhanced_video_recordings, mock_video_analysis, now>>
    /\ UNCHANGED videoVars
    /\ UNCHANGED captureVars
    /\ IF RefusesEmpty(responses) \/ ById(enhanced_sessions, session_id) = {}
       THEN /\ last' = [op |-> "submit", code |-> 500, rid |-> session_id,
                        before |-> "none",
                        error |-> IF RefusesEmpty(responses) THEN "No responses provided"
                                  ELSE ServiceError(session_id)]
            /\ UNCHANGED <<enhanced_sessions, enhanced_responses, req>>
       ELSE /\ SubmitResponses(session_id, responses)
            /\ req' = [pc |-> "recording", route |-> "enhanced_assessments",
                       session_id |-> session_id, recording_id |-> 0,
                       responses |-> responses,
                       result |-> ServiceResult(session_id, responses)]
            /\ last' = Outcome("scored", 0, session_id, "none")

\* lines 105-117: the recording row, committed as "completed"
SubmitAddRecording ==
    /\ req.pc = "recording"
    /\ req.route = "enhanced_assessments"
    /\ enhanced_video_recordings' = enhanced_video_recordings \cup
          {[id |-> NextId(enhanced_video_recordings), session_id |-> req.session_id,
            processing_status |-> "completed"]}
    /\ req' = [req EXCEPT !.pc = "analysis",
                          !.recording_id = NextId(enhanced_video_recordings)]
    /\ last' = Outcome("recording", 0, NextId(enhanced_video_recordings), "none")
    /\ UNCHANGED <<enhanced_questions, enhanced_sessions, enhanced_responses,
                   mock_video_analysis, now>>
    /\ UNCHANGED videoVars
    /\ UNCHANGED captureVars

\* lines 119-137: the mock analysis row, committed, and the response
SubmitAddAnalysis ==
    /\ req.pc = "analysis"
    /\ req.route = "enhanced_assessments"
    /\ mock_video_analysis' = mock_video_analysis \cup
          {[id |-> NextId(mock_video_analysis), session_id |-> req.session_id,
            video_recording_id |-> req.recording_id]}
    /\ req' = NoReq
    /\ last' = Outcome("submit", 200, req.session_id, "none")
    /\ UNCHANGED <<enhanced_questions, enhanced_sessions, enhanced_responses,
                   enhanced_video_recordings, now>>
    /\ UNCHANGED videoVars
    /\ UNCHANGED captureVars

(***************************************************************************)
(* routes/enhanced_assessment_api.py submit_assessment_session: no check   *)
(* of the response list; recording "pending", analysis row, then           *)
(* "completed", each in its own commit.                                    *)
(***************************************************************************)
ApiSubmitAssessmentSession(session_id, responses) ==
    /\ req = NoReq
    /\ Cardinality(enhanced_video_recordings) < MaxSubmits
    /\ UNCHANGED <<enhanced_questions, enhanced_video_recordings, mock_video_analysis, now>>
    /\ UNCHANGED videoVars
    /\ UNCHANGED captureVars
    /\ IF ById(enhanced_sessions, session_id) = {}
       THEN /\ last' = [op |-> "api_submit", code |-> 500, rid |-> session_id,
                        before |-> "none", error |-> ServiceError(session_id)]
            /\ UNCHANGED <<enhanced_sessions, enhanced_responses, req>>
       ELSE /\ SubmitResponses(session_id, responses)
            /\ req' = [pc |-> "recording", route |-> "enhanced_assessment_api",
                       session_id |-> session_id, recording_id |-> 0,
                       responses |-> responses,
                       result |-> ServiceResult(session_id, responses)]
            /\ last' = Outcome("scored", 0, session_id, "none")

\* lines 94-103
ApiSubmitAddRecording ==
    /\ req.pc = "recording"
    /\ req.route = "enhanced_assessment_api"
    /\ enhanced_video_recordings' = enhanced_video_recordings \cup
          {[id |-> NextId(enhanced_video_recordings), session_id |-> req.session_id,
            processing_status |-> "pending"]}
    /\ req' = [req EXCEPT !.pc = "analysis",
                          !.recording_id = NextId(enhanced_video_recordings)]
    /\ last' = Outcome("recording", 0, NextId(enhanced_video_recordings), "none")
    /\ UNCHANGED <<enhanced_questions, enhanced_sessions, enhanced_responses,
                   mock_video_analysis, now>>
    /\ UNCHANGED videoVars
    /\ UNCHANGED captureVars

\* lines 105-110
ApiSubmitAddAnalysis ==
    /\ req.pc = "analysis"
    /\ req.route = "enhanced_assessment_api"
    /\ mock_video_analysis' = mock_video_analysis \cup
          {[id |-> NextId(mock_video_analysis), session_id |-> req.session_id,
            video_recording_id |-> req.recording_id]}
    /\ req' = [req EXCEPT !.pc = "status"]
    /\ last' = Outcome("analysis", 0, req.recording_id, "none")
    /\ UNCHANGED <<enhanced_questions, enhanced_sessions, enhanced_responses,
                   enhanced_video_recordings, now>>
    /\ UNCHANGED videoVars
    /\ UNCHANGED captureVars

\* lines 112-126
ApiSubmitComplete ==
    /\ req.pc = "status"
    /\ req.route = "enhanced_assessment_api"
    /\ enhanced_video_recordings' =
          {IF r.id = req.recording_id THEN [r EXCEPT !.processing_status = "completed"]
           ELSE r : r \in enhanced_video_recordings}
    /\ req' = NoReq
    /\ last' = Outcome("api_submit", 200, req.session_id, "none")
    /\ UNCHANGED <<enhanced_questions, enhanced_sessions, enhanced_responses,
                   mock_video_analysis, now>>
    /\ UNCHANGED videoVars
    /\ UNCHANGED captureVars

(***************************************************************************)
(* routes/enhanced_assessments.py get_session_results: the session is      *)
(* looked up by id alone; the route takes no caller identity.  The 404 of  *)
(* a missing session is raised inside the try and leaves as status 500.    *)
(***************************************************************************)
GetSessionResults(session_id) ==
    /\ req = NoReq
    /\ UNCHANGED enhancedVars
    /\ UNCHANGED captureVars
    /\ UNCHANGED videoVars
    /\ LET found == ById(enhanced_sessions, session_id) IN
       last' = IF found = {}
               THEN [op |-> "enhanced_results", code |-> 500, rid |-> session_id,
                     before |-> "none", detail |-> "Session not found"]
               ELSE [op |-> "enhanced_results", code |-> 200, rid |-> session_id,
                     before |-> "none", detail |-> "",
                     session |-> First(found),
                     responses |-> {r \in enhanced_responses : r.session_id = session_id},
                     video_analysis |->
                         {a \in mock_video_analysis : a.session_id = session_id},
                     video_recording |->
                         {r \in enhanced_video_recordings : r.session_id = session_id}]

\* time passes
Tick ==
    /\ now < MaxClock
    /\ now' = now + 1
    /\ UNCHANGED <<enhanced_questions, enhanced_sessions, enhanced_responses,
                   enhanced_video_recordings, mock_video_analysis, req, last>>
    /\ UNCHANGED videoVars
    /\ UNCHANGED captureVars

InitEnhanced ==
    /\ CaptureIdle
    /\ assessment_sessions = {}
    /\ video_recordings = {}
    /\ video_analysis_results = {}
    /\ background_tasks = EmptyBag
    /\ files = {}
    /\ assessment_responses = {}
    /\ folders = {}
    /\ copies = {}
    /\ last = Outcome("init", 0, 0, "none")
    /\ enhanced_questions \in {{}, WeightedQuestions}
    /\ enhanced_sessions = {}
    /\ enhanced_responses = {}
    /\ enhanced_video_recordings = {}
    /\ mock_video_analysis = {}
    /\ req = NoReq
    /\ now = 0

NextEnhanced ==
    \/ GetAssessmentTypes
    \/ \E u \in Users : StartAssessmentSession(u)
    \/ \E s \in 1..(MaxEnhSessions + 1), responses \in Submissions :
          SubmitAssessmentSession(s, responses)
    \/ SubmitAddRecording
    \/ SubmitAddAnalysis
    \/ \E s \in 1..(MaxEnhSessions + 1), responses \in Submissions :
          ApiSubmitAssessmentSession(s, responses)
    \/ ApiSubmitAddRecording
    \/ ApiSubmitAddAnalysis
    \/ ApiSubmitComplete
    \/ \E s \in 1..(MaxEnhSessions + 1) : GetSessionResults(s)
    \/ Tick

SpecEnhanced == InitEnhanced /\ [][NextEnhanced]_vars

(***************************************************************************)
(* Original scoring: routes/assessments.py complete_assessment_session     *)
(* (ownership check) and AssessmentService.complete_assessment_session.    *)
(* total_score and max_score are the caller's numbers.                     *)
(***************************************************************************)
ScoreInputs == {-1, 0, 1, 2}

\* the ratio left unscaled
CompletePercentage_Ratio(total_score, max_score) ==
    IF max_score > 0 THEN Frac(total_score, max_score) ELSE Frac(0, 1)

\* line 89: (total_score / max_score) * 100 if max_score > 0 else 0
CompletePercentage(total_score, max_score) ==
    IF max_score > 0 THEN Frac(total_score * 100, max_score) ELSE Frac(0, 1)

CompleteAssessmentSession(u, session_id, total_score, max_score) ==
    /\ UNCHANGED <<assessment_responses, folders, copies>>
    /\ UNCHANGED <<video_recordings, video_analysis_results, background_tasks, files>>
    /\ UNCHANGED enhancedVars
    /\ UNCHANGED captureVars
    /\ IF get_session_by_id(session_id, u) = {}
       THEN /\ last' = Outcome("complete", 404, session_id, "none")
            /\ UNCHANGED assessment_sessions
       ELSE LET session == First(ById(assessment_sessions, session_id)) IN
            /\ assessment_sessions' = (assessment_sessions \ {session}) \cup
                  {[session EXCEPT !.status = "completed",
                                   !.completed_at = now,
                                   !.total_score = Some(total_score),
                                   !.max_score = Some(max_score),
                                   !.percentage =
                                       Some(CompletePercentage(total_score, max_score)),
                                   !.time_taken_seconds = now - session.started_at]}
            /\ last' = Outcome("complete", 200, session_id, session.status)

NextLegacy ==
    \/ \E u \in Users : CreateAssessmentSession(u)
    \/ \E u \in Users, s \in 1..(MaxSessions + 1), total_score \in ScoreInputs,
          max_score \in ScoreInputs :
          CompleteAssessmentSession(u, s, total_score, max_score)
    \/ Tick

SpecLegacy == InitVideo /\ [][NextLegacy]_vars

(***************************************************************************)
(* The duration the upload route works out for the registrar, applied to   *)
(* every combination of the three optional query parameters.               *)
(***************************************************************************)
ComputeUploadDuration(recording_started, recording_ended, video_duration) ==
    /\ last' = [op |-> "duration", code |-> 0, rid |-> 0, before |-> "none",
                recording_started |-> recording_started,
                recording_ended |-> recording_ended,
                supplied |-> video_duration,
                clock |-> now,
                video_duration |->
                    UploadDuration(recording_started, recording_ended, video_duration)]
    /\ UNCHANGED videoVars
    /\ UNCHANGED captureVars
    /\ UNCHANGED enhancedVars

NextDuration ==
    \/ \E recording_started \in OptionalStamps, recording_ended \in OptionalStamps,
          video_duration \in OptionalDurations :
          ComputeUploadDuration(recording_started, recording_ended, video_duration)
    \/ Tick

SpecDuration == InitVideo /\ [][NextDuration]_vars

(***************************************************************************)
(* The emotion mappings of the two analyzers.  Probabilities are counted   *)
(* in hundredths: 75 is 0.75.                                              *)
(***************************************************************************)
Emotions == {"happiness", "sadness", "anger", "surprise", "fear", "disgust", "neutral"}

\* analyze_video_mock, lines 263-271: the fixed mapping
analyze_video_mock ==
    [happiness |-> 75, sadness |-> 12, anger |-> 8, surprise |-> 25,
     fear |-> 5, disgust |-> 3, neutral |-> 15]

\* values round(random.uniform(0.05, 0.35), 2) can give, two of 5..35
DrawnValues == {5, 35}

\* round(n / d, 2) in hundredths: the nearest hundredth, a tie to the even one
RoundHundredths(n, d) ==
    LET f == (100 * n) \div d
        r == (100 * n) % d
    IN IF 2 * r > d THEN f + 1
       ELSE IF 2 * r < d THEN f
       ELSE IF f % 2 = 0 THEN f ELSE f + 1

RECURSIVE SumOver(_, _)
SumOver(f, S) == IF S = {} THEN 0
                 ELSE LET x == CHOOSE y \in S : TRUE IN f[x] + SumOver(f, S \ {x})

\* generate_mock_video_analysis, lines 293-299: each drawn value divided by
\* the total of the drawn values and rounded to two places
generate_mock_video_analysis(drawn) ==
    LET total == SumOver(drawn, Emotions)
    IN [emotion \in Emotions |-> RoundHundredths(drawn[emotion], total)]

AnalyzeVideoMock ==
    /\ last' = [op |-> "analyze_video_mock", code |-> 0, rid |-> 0, before |-> "none",
                emotional_analysis |-> analyze_video_mock]
    /\ UNCHANGED videoVars
    /\ UNCHANGED captureVars
    /\ UNCHANGED enhancedVars

GenerateMockVideoAnalysis(drawn) ==
    /\ last' = [op |-> "generate_mock_video_analysis", code |-> 0, rid |-> 0,
                before |-> "none",
                emotional_analysis |-> generate_mock_video_analysis(drawn)]
    /\ UNCHANGED videoVars
    /\ UNCHANGED captureVars
    /\ UNCHANGED enhancedVars

NextEmotions ==
    \/ AnalyzeVideoMock
    \/ \E drawn \in [Emotions -> DrawnValues] : GenerateMockVideoAnalysis(drawn)

SpecEmotions == InitVideo /\ [][NextEmotions]_vars

(***************************************************************************)
(* routes/video_analysis.py: the live frame processor.  A call either      *)
(* returns a value or raises; percentages are counted in hundredths of a   *)
(* percent: 4000 is 40.00.                                                 *)
(***************************************************************************)
Return(value) == [raised |-> FALSE, value |-> value]

Raise(error) == [raised |-> TRUE, error |-> error]

\* the keys of the dict detect_emotion_from_face returns, lines 91-96
ResultKeys == {"emotions", "dominant_emotion", "age", "gender"}

\* emotions_list of create_emotion_fallback, also the keys of the zero mapping
FallbackEmotions == {"happy", "sad", "angry", "surprised", "neutral", "fear", "disgust"}

\* the random draws of one create_emotion_fallback call: the dominant
\* emotion, its value from uniform(40, 70), the value of the others from
\* uniform(1, 15), randint(20, 60) and the gender
FallbackDraws ==
    [dominant : FallbackEmotions, dominant_value : {4000, 7000},
     other_value : {1500}, age : {20}, gender : {"Man", "Woman"}]

\* round(p / total * 100, 2) for every key of a mapping
NormalizeTo100(probabilities) ==
    LET total == SumOver(probabilities, DOMAIN probabilities)
    IN [k \in DOMAIN probabilities |-> RoundHundredths(100 * probabilities[k], total)]

\* lines 102-138
create_emotion_fallback(draw) ==
    LET emotions_prob == [emotion \in FallbackEmotions |->
                             IF emotion = draw.dominant THEN draw.dominant_value
                             ELSE draw.other_value]
        normalized == NormalizeTo100(emotions_prob)
        total == SumOver(normalized, FallbackEmotions)
        adjusted == IF total # 10000
                    THEN [normalized EXCEPT ![draw.dominant] = @ + (10000 - total)]
                    ELSE normalized
    IN [emotions |-> adjusted, dominant_emotion |-> draw.dominant,
        age |-> Some(draw.age), gender |-> Some(draw.gender)]

\* the error handed on to the caller
HandleError_Reraise(error, draw) == error

\* except Exception: return create_emotion_fallback()  (lines 98-100, 163-165)
HandleError(error, draw) == Return(create_emotion_fallback(draw))

\* what DeepFace.analyze hands back for the 'emotion' action
DeepFaceEmotion ==
    [angry |-> 100, disgust |-> 50, fear |-> 250, happy |-> 6000, sad |-> 600,
     surprise |-> 1000, neutral |-> 2000]

\* result dicts of DeepFace.analyze: complete with gender as a dict, complete
\* with gender as a string, without any key, with 'emotion' not a dict
DeepFaceResults ==
    {[emotion |-> [tag |-> "dict", items |-> DeepFaceEmotion],
      dominant_emotion |-> Some("happy"), age |-> Some(30),
      gender |-> [tag |-> "dict", items |-> [Man |-> 9000, Woman |-> 1000]]],
     [emotion |-> [tag |-> "dict", items |-> DeepFaceEmotion],
      dominant_emotion |-> Some("happy"), age |-> Some(30),
      gender |-> [tag |-> "str", value |-> "Woman"]],
     [emotion |-> [tag |-> "missing"], dominant_emotion |-> None, age |-> None,
      gender |-> [tag |-> "missing"]],
     [emotion |-> [tag |-> "str"], dominant_emotion |-> Some("happy"), age |-> Some(30),
      gender |-> [tag |-> "str", value |-> "Woman"]]}

\* cvtColor or DeepFace.analyze raises, or analyze returns a dict, a list or
\* something else
AnalyzerOutcomes ==
    {[kind |-> "raise"], [kind |-> "other"], [kind |-> "list", items |-> <<>>]}
    \cup {[kind |-> "dict", res |-> res] : res \in DeepFaceResults}
    \cup {[kind |-> "list", items |-> <<res>>] : res \in DeepFaceResults}

\* max(gender.items(), key=lambda x: x[1])[0]
ArgMax(items) == CHOOSE k \in DOMAIN items : \A j \in DOMAIN items : items[j] <= items[k]

\* lines 75-96: the result built from one DeepFace result dict
FromDeepFace(res) ==
    IF res.emotion.tag = "str" THEN Raise("AttributeError")
    ELSE LET emotions_prob == IF res.emotion.tag = "dict" THEN res.emotion.items
                              ELSE <<>>
             total_prob == SumOver(emotions_prob, DOMAIN emotions_prob)
             gender == IF res.gender.tag = "dict" THEN Some(ArgMax(res.gender.items))
                       ELSE IF res.gender.tag = "str" THEN Some(res.gender.value)
                       ELSE None
         IN Return([emotions |-> IF total_prob > 0 THEN NormalizeTo100(emotions_prob)
                                 ELSE [k \in FallbackEmotions |-> 0],
                    dominant_emotion |-> IF res.dominant_emotion = None THEN "neutral"
                                         ELSE res.dominant_emotion[1],
                    age |-> res.age, gender |-> gender])

\* lines 59-74 and 98-100: the try body of detect_emotion_from_face
DetectBody(analysis, draw) ==
    IF analysis.kind = "raise" THEN Raise("Exception")
    ELSE IF analysis.kind = "dict" THEN FromDeepFace(analysis.res)
    ELSE IF analysis.kind = "list"
    THEN IF analysis.items = <<>> THEN Raise("IndexError")
         ELSE FromDeepFace(analysis.items[1])
    ELSE Return(create_emotion_fallback(draw))

detect_emotion_from_face(analysis, draw) ==
    LET body == DetectBody(analysis, draw)
    IN IF body.raised THEN HandleError(body, draw) ELSE body

\* lines 141-161: the try body of process_frame.  Its first statement reads
\* len(faces); no statement of the module binds the name faces (nor frame),
\* so the body raises NameError whatever the frame holds.
ProcessFrameBody(frame_data) == Raise("NameError")

process_frame(frame_data, draw) ==
    LET body == ProcessFrameBody(frame_data)
    IN IF body.raised THEN HandleError(body, draw) ELSE body

\* the "image" values a caller sends: a frame with a face, one without, and
\* text that is not an image
FrameData == {"face", "no face", "not base64"}

DetectEmotionFromFace(analysis, draw) ==
    /\ last' = [op |-> "detect_emotion_from_face", code |-> 0, rid |-> 0,
                before |-> "none", input |-> analysis.kind,
                failed |-> DetectBody(analysis, draw).raised \/ analysis.kind = "other",
                fallback |-> create_emotion_fallback(draw),
                outcome |-> detect_emotion_from_face(analysis, draw)]
    /\ UNCHANGED videoVars
    /\ UNCHANGED captureVars
    /\ UNCHANGED enhancedVars

ProcessFrame(frame_data, draw) ==
    /\ last' = [op |-> "process_frame", code |-> 0, rid |-> 0, before |-> "none",
                input |-> frame_data,
                failed |-> ProcessFrameBody(frame_data).raised,
                fallback |-> create_emotion_fallback(draw),
                outcome |-> process_frame(frame_data, draw)]
    /\ UNCHANGED videoVars
    /\ UNCHANGED captureVars
    /\ UNCHANGED enhancedVars

NextFrame ==
    \/ \E analysis \in AnalyzerOutcomes, draw \in FallbackDraws :
          DetectEmotionFromFace(analysis, draw)
    \/ \E frame_data \in FrameData, draw \in FallbackDraws : ProcessFrame(frame_data, draw)

SpecFrame == InitVideo /\ [][NextFrame]_vars

(***************************************************************************)
(* routes/video_analysis.py: the live-capture endpoints.  start_capture    *)
(* and stop_capture are plain functions, which the framework runs on       *)
(* worker threads; process_frame_endpoint is a coroutine on the event loop *)
(* thread.  All of them read and write the same module globals without a   *)
(* lock, so their statements interleave: a request is modelled statement   *)
(* by statement where it writes the globals.                               *)
(***************************************************************************)
\* the bodies a caller posts to /process-frame: with and without "image"
FrameRequests == {[image |-> "face"], [frame |-> "face"]}

\* the draws of the fallback used for the captured frames
CaptureDraws == {draw \in FallbackDraws : draw.dominant \in {"happy", "neutral"}
                    /\ draw.dominant_value = 4000 /\ draw.gender = "Woman"}

CaptureOutcome(op, status, error) ==
    [op |-> op, code |-> 200, rid |-> 0, before |-> "none",
     status |-> status, error |-> error]

\* lines 206-216, up to capture_running = True
StartCapture ==
    /\ start_req.pc = "idle"
    /\ IF capture_running
       THEN /\ last' = CaptureOutcome("start_capture", "already running", "")
            /\ UNCHANGED captureVars
       ELSE /\ capture_running' = TRUE
            /\ start_req' = [pc |-> "latest_emotion"]
            /\ last' = CaptureOutcome("start_capture", "running", "")
            /\ UNCHANGED <<latest_emotion, latest_emotions_list, emotions_log, frame_req>>
    /\ UNCHANGED videoVars
    /\ UNCHANGED enhancedVars

\* line 213: latest_emotion = None
StartCaptureResetLatest ==
    /\ start_req.pc = "latest_emotion"
    /\ latest_emotion' = None
    /\ start_req' = [pc |-> "latest_emotions_list"]
    /\ last' = CaptureOutcome("start_capture", "latest_emotion", "")
    /\ UNCHANGED <<capture_running, latest_emotions_list, emotions_log, frame_req>>
    /\ UNCHANGED videoVars
    /\ UNCHANGED enhancedVars

\* lines 214-216: latest_emotions_list = [] and the response
StartCaptureResetList ==
    /\ start_req.pc = "latest_emotions_list"
    /\ latest_emotions_list' = <<>>
    /\ start_req' = [pc |-> "idle"]
    /\ last' = CaptureOutcome("start_capture", "capture started", "")
    /\ UNCHANGED <<capture_running, latest_emotion, emotions_log, frame_req>>
    /\ UNCHANGED videoVars
    /\ UNCHANGED enhancedVars

\* lines 218-250: the log file is only read for the response
StopCapture ==
    /\ IF ~capture_running
       THEN /\ last' = CaptureOutcome("stop_capture", "not running", "")
            /\ UNCHANGED captureVars
       ELSE /\ capture_running' = FALSE
            /\ last' = CaptureOutcome("stop_capture", "capture stopped", "")
            /\ UNCHANGED <<latest_emotion, latest_emotions_list, emotions_log,
                           frame_req, start_req>>
    /\ UNCHANGED videoVars
    /\ UNCHANGED enhancedVars

\* lines 185-194
create_emotion_entry(emotion_result, frame_count, faces_detected) ==
    [emotions |-> emotion_result.emotions,
     dominant_emotion |-> emotion_result.dominant_emotion,
     age |-> emotion_result.age, gender |-> emotion_result.gender,
     timestamp |-> now, faces_detected |-> faces_detected,
     frame_count |-> frame_count]

\* lines 252-262: the check of capture_running, frame_count and the frame
\* processor; a body without "image" raises KeyError inside the try
ProcessFrameEndpoint(frame_data, draw) ==
    /\ frame_req.pc = "idle"
    /\ IF ~capture_running
       THEN /\ last' = CaptureOutcome("process_frame_endpoint", "",
                                      "Capture not running. Start capture first.")
            /\ UNCHANGED captureVars
       ELSE IF "image" \notin DOMAIN frame_data
       THEN /\ last' = CaptureOutcome("process_frame_endpoint", "",
                                      "Failed to process frame")
            /\ UNCHANGED captureVars
       ELSE /\ Len(latest_emotions_list) < MaxFrames
            /\ frame_req' = [pc |-> "entry",
                             frame_count |-> Len(latest_emotions_list) + 1,
                             emotion_result |-> process_frame(frame_data.image, draw).value]
            /\ last' = CaptureOutcome("process_frame_endpoint", "processing", "")
            /\ UNCHANGED <<capture_running, latest_emotion, latest_emotions_list,
                           emotions_log, start_req>>
    /\ UNCHANGED videoVars
    /\ UNCHANGED enhancedVars

\* lines 264-265: entry = create_emotion_entry(...); latest_emotion = entry
ProcessFrameEntry ==
    /\ frame_req.pc = "entry"
    /\ LET entry == create_emotion_entry(frame_req.emotion_result, frame_req.frame_count, 1)
       IN /\ latest_emotion' = Some(entry)
          /\ frame_req' = [pc |-> "append", entry |-> entry]
    /\ last' = CaptureOutcome("process_frame_endpoint", "entry", "")
    /\ UNCHANGED <<capture_running, latest_emotions_list, emotions_log, start_req>>
    /\ UNCHANGED videoVars
    /\ UNCHANGED enhancedVars

\* lines 266-272: append to the list the global names now, save every tenth
\* entry, return the entry
ProcessFrameAppend ==
    /\ frame_req.pc = "append"
    /\ latest_emotions_list' = Append(latest_emotions_list, frame_req.entry)
    /\ emotions_log' = IF Len(latest_emotions_list') % 10 = 0
                       THEN Some(latest_emotions_list') ELSE emotions_log
    /\ frame_req' = [pc |-> "idle"]
    /\ last' = [op |-> "process_frame_endpoint", code |-> 200, rid |-> 0,
                before |-> "none", status |-> "entry returned", error |-> "",
                entry |-> frame_req.entry]
    /\ UNCHANGED <<capture_running, latest_emotion, start_req>>
    /\ UNCHANGED videoVars
    /\ UNCHANGED enhancedVars

NextCapture ==
    \/ StartCapture
    \/ StartCaptureResetLatest
    \/ StartCaptureResetList
    \/ StopCapture
    \/ \E frame_data \in FrameRequests, draw \in CaptureDraws :
          ProcessFrameEndpoint(frame_data, draw)
    \/ ProcessFrameEntry
    \/ ProcessFrameAppend
    \/ Tick

SpecCapture == InitVideo /\ [][NextCapture]_vars

(***************************************************************************)
(* Readers of the original tables.                                         *)
(***************************************************************************)
\* AssessmentService.get_video_analysis_by_recording_id, as a set of rows
ResultsOf(recording_id) ==
    {a \in video_analysis_results : a.video_recording_id = recording_id}

StatusOf(recording_id) == First(ById(video_recordings, recording_id)).processing_status

\* the error text the table holds for a recording: "" when it holds none
StoredErrorMessage(recording) ==
    IF "error_message" \in DOMAIN recording THEN recording.error_message ELSE ""

(***************************************************************************)
(* C1: in every state a reader can observe, a recording has an analysis    *)
(* result row if and only if its processing_status is "completed".         *)
(***************************************************************************)
C1_ResultIffCompleted ==
    \A r \in video_recordings :
        (ResultsOf(r.id) # {}) <=> (r.processing_status = "completed")

(***************************************************************************)
(* C2: the only status changes of a recording are pending -> processing,   *)
(* processing -> completed and processing -> failed; completed and failed  *)
(* are never left, whatever is invoked afterwards.                         *)
(***************************************************************************)
ValidTransitions ==
    {<<"pending", "processing">>, <<"processing", "completed">>,
     <<"processing", "failed">>}

C2_OnlyValidTransitions ==
    [][\A r \in video_recordings : \A q \in video_recordings' :
          (q.id = r.id /\ q.processing_status # r.processing_status)
             => <<r.processing_status, q.processing_status>> \in ValidTransitions]_vars

(***************************************************************************)
(* C3: when a dispatch of a "pending" recording returns to its caller, the *)
(* recording is already "processing".                                      *)
(***************************************************************************)
C3_ProcessingWhenDispatchReturns ==
    (last.op = "analyze" /\ last.code = 200 /\ last.before = "pending")
        => StatusOf(last.rid) = "processing"

(***************************************************************************)
(* C4: at most one analysis result row references a recording, for any     *)
(* number of sequential or interleaved dispatches.                         *)
(***************************************************************************)
C4_AtMostOneResult ==
    \A r \in video_recordings : Cardinality(ResultsOf(r.id)) <= 1

(***************************************************************************)
(* C5: when the analysis dispatched on a "pending" recording raises, the   *)
(* recording ends "failed", its stored error_message is non-empty and it   *)
(* has no analysis result row.                                             *)
(***************************************************************************)
C5_FailureRecorded ==
    (last.op = "task_failure" /\ last.before = "pending"
        /\ ById(video_recordings, last.rid) # {})
        => /\ StatusOf(last.rid) = "failed"
           /\ StoredErrorMessage(First(ById(video_recordings, last.rid))) # ""
           /\ ResultsOf(last.rid) = {}

(***************************************************************************)
(* Readers of the scoring state.                                           *)
(***************************************************************************)
RECURSIVE SumFn(_, _)
SumFn(f, S) == IF S = {} THEN 0
               ELSE LET x == CHOOSE y \in S : TRUE IN f[x] + SumFn(f, S \ {x})

QuestionOf(question_id) == First(ById(enhanced_questions, question_id))

\* positions of a submission whose question exists
Answered(responses) ==
    {i \in 1..Len(responses) : ById(enhanced_questions, responses[i].question_id) # {}}

AnsweredPoints(responses) ==
    SumFn([i \in Answered(responses) |-> QuestionOf(responses[i].question_id).points],
          Answered(responses))

EarnedPoints(responses) ==
    SumFn([i \in Answered(responses) |->
              IF responses[i].user_answer = QuestionOf(responses[i].question_id).correct_answer
              THEN QuestionOf(responses[i].question_id).points ELSE 0],
          Answered(responses))

\* the session a submit request in flight has scored
ScoredSessionOfReq == First(ById(enhanced_sessions, req.session_id))

\* the scored sessions of both table families as (total, max, percentage)
ScoredTriples ==
    {[total_score |-> e.total_score, max_score |-> e.max_score,
      percentage |-> e.percentage] :
        e \in {x \in enhanced_sessions : x.status = "completed"}}
    \cup
    {[total_score |-> l.total_score[1], max_score |-> l.max_score[1],
      percentage |-> l.percentage[1]] :
        l \in {x \in assessment_sessions : x.status = "completed"}}

\* p is exactly 100 * total_score / max_score
IsPercentOf(p, total_score, max_score) ==
    p.den > 0 /\ p.num * max_score = 100 * total_score * p.den

IsZeroPercent(p) == p.den > 0 /\ p.num = 0

C7_MaxScoreIsAnsweredPoints ==
    req.pc # "idle" => ScoredSessionOfReq.max_score = AnsweredPoints(req.responses)

\* a scored submission that answers one question and leaves another out
C7_Witness ==
    /\ req.pc # "idle"
    /\ Len(req.responses) > 0
    /\ \E q \in enhanced_questions :
          \A i \in 1..Len(req.responses) : req.responses[i].question_id # q.id
    /\ ScoredSessionOfReq.max_score > 0
    /\ ScoredSessionOfReq.max_score < SumFn([q \in enhanced_questions |-> q.points],
                                            enhanced_questions)

(***************************************************************************)
(* C8 as stated: submitting zero responses for an existing session         *)
(* succeeds without error and leaves max_score = 0 and percentage = 0.     *)
(***************************************************************************)
C8_EmptySubmitAsStated ==
    [][\A s \in 1..MaxEnhSessions :
          (/\ ById(enhanced_sessions, s) # {}
           /\ \/ SubmitAssessmentSession(s, <<>>)
              \/ ApiSubmitAssessmentSession(s, <<>>))
          => /\ last'.code # 500
             /\ \A e \in ById(enhanced_sessions', s) :
                   e.max_score = 0 /\ IsZeroPercent(e.percentage)]_vars

(***************************************************************************)
(* C8 amended: zero responses for an existing session are scored without   *)
(* error by the scoring service and the enhanced_assessment_api submit     *)
(* route, leaving the session completed with max_score = 0 and             *)
(* percentage = 0; the enhanced_assessments submit route refuses an empty  *)
(* response list with an error and leaves the session as it was.           *)
(***************************************************************************)
C8_EmptySubmit ==
    [][\A s \in 1..MaxEnhSessions :
          ById(enhanced_sessions, s) # {} =>
             /\ ApiSubmitAssessmentSession(s, <<>>) =>
                   /\ last'.code # 500
                   /\ \A e \in ById(enhanced_sessions', s) :
                         /\ e.status = "completed"
                         /\ e.total_score = 0
                         /\ e.max_score = 0
                         /\ IsZeroPercent(e.percentage)
                   /\ enhanced_responses' = enhanced_responses
             /\ SubmitAssessmentSession(s, <<>>) =>
                   /\ last'.code = 500
                   /\ enhanced_sessions' = enhanced_sessions
                   /\ enhanced_responses' = enhanced_responses
                   /\ req' = NoReq]_vars

\* the api route has just scored an empty submission
C8_Witness ==
    /\ req.pc = "recording"
    /\ req.route = "enhanced_assessment_api"
    /\ req.responses = <<>>
    /\ ScoredSessionOfReq.status = "completed"
    /\ ScoredSessionOfReq.max_score = 0
    /\ req.result.percentage = Frac(0, 1)

(***************************************************************************)
(* C9: a stored response is marked correct exactly when user_answer is     *)
(* identical to the question's correct_answer, it earns the question's     *)
(* points if correct and 0 otherwise, and the session's total_score is the *)
(* sum of the points earned over the submission.                           *)
(***************************************************************************)
C9_ExactMatchScoring ==
    /\ \A row \in enhanced_responses :
          ById(enhanced_questions, row.question_id) # {} =>
             /\ row.is_correct <=> (row.user_answer = QuestionOf(row.question_id).correct_answer)
             /\ row.points_earned =
                   (IF row.is_correct THEN QuestionOf(row.question_id).points ELSE 0)
    /\ req.pc # "idle" => ScoredSessionOfReq.total_score = EarnedPoints(req.responses)

\* one stored answer differs from the correct answer by case only and earns
\* nothing, another is identical and earns the question's points
C9_Witness ==
    /\ req.pc # "idle"
    /\ \E row \in enhanced_responses :
          /\ QuestionOf(row.question_id).correct_answer = "A"
          /\ row.user_answer = "a"
          /\ ~row.is_correct
          /\ row.points_earned = 0
    /\ \E row \in enhanced_responses :
          /\ row.is_correct
          /\ row.points_earned = 2
    /\ ScoredSessionOfReq.total_score = 2

(***************************************************************************)
(* C10: a session is moved to "completed" exactly once: the only status    *)
(* change is in_progress -> completed, and once a session is completed no  *)
(* later submit, score or complete call changes its status, scores,        *)
(* percentage, completed_at or its set of responses.                       *)
(***************************************************************************)
C10_CompletedIsFinal ==
    [][/\ \A e \in enhanced_sessions :
             /\ e.status = "completed" =>
                   /\ e \in enhanced_sessions'
                   /\ {r \in enhanced_responses' : r.session_id = e.id}
                         = {r \in enhanced_responses : r.session_id = e.id}
             /\ \A f \in enhanced_sessions' :
                   (f.id = e.id /\ f.status # e.status)
                      => (e.status = "in_progress" /\ f.status = "completed")
       /\ \A l \in assessment_sessions :
             /\ l.status = "completed" => l \in assessment_sessions'
             /\ \A m \in assessment_sessions' :
                   (m.id = l.id /\ m.status # l.status)
                      => (l.status = "in_progress" /\ m.status = "completed")]_vars

C12_UploadRegistersPending ==
    (/\ last.op = "upload"
     /\ last.detail \notin {"Assessment session not found", "Failed to save video file"})
    => /\ last.code = 200
       /\ \E r \in video_recordings :
             r.id = last.rid /\ r.processing_status = "pending"

(***************************************************************************)
(* C13: without a supplied duration the duration handed to the registrar   *)
(* is end - start in whole seconds when that is not negative and 0 when    *)
(* the end is earlier than the start; it is never negative; a supplied     *)
(* duration, 0 included, is kept as given.                                 *)
(***************************************************************************)
C13_DurationFlooredAtZero ==
    last.op = "duration" =>
       LET started == IF last.recording_started = None THEN last.clock * TicksPerSecond
                      ELSE last.recording_started[1]
           ended == IF last.recording_ended = None THEN last.clock * TicksPerSecond
                    ELSE last.recording_ended[1]
       IN /\ last.video_duration >= 0
          /\ last.supplied # None => last.video_duration = last.supplied[1]
          /\ last.supplied = None =>
                last.video_duration =
                   (IF ended >= started THEN (ended - started) \div TicksPerSecond ELSE 0)

(***************************************************************************)
(* Readers of the download columns of a recording.                         *)
(***************************************************************************)
\* the download path and time the table holds for a recording: None when
\* it holds none
StoredDownload(recording) ==
    IF {"download_path", "last_downloaded_at"} \subseteq DOMAIN recording
    THEN Some([download_path |-> recording.download_path,
               last_downloaded_at |-> recording.last_downloaded_at])
    ELSE None

(***************************************************************************)
(* C14: a download that fails because the session does not resolve for the *)
(* user, because the session has no recording, or because the source file  *)
(* is missing on disk is answered with an error, and the error text is     *)
(* different for each of the three causes.                                 *)
(***************************************************************************)
C14_DownloadErrorsDistinct ==
    (last.op = "download" /\ last.code # 200 /\ last.rid = 0) =>
       LET owned == get_session_by_id(last.session_id, last.user_id) # {}
           recordings == RecordingsOf(last.session_id)
       IN /\ last.code = 404
          /\ (last.detail = "Session not found or access denied") <=> ~owned
          /\ (last.detail = "No video recording found for this session")
                <=> (owned /\ recordings = {})
          /\ (last.detail = "Video file not found on server")
                <=> (owned /\ recordings # {} /\ ~SourceExists(First(recordings)))

\* the owner asked for a download of a registered recording whose file is
\* not on disk
C14_Witness ==
    /\ last.op = "download"
    /\ last.code = 404
    /\ last.detail = "Video file not found on server"
    /\ get_session_by_id(last.session_id, last.user_id) # {}
    /\ RecordingsOf(last.session_id) # {}

(***************************************************************************)
(* C15: after a download of an existing recording whose source file        *)
(* exists, the copy is in the default location when no folder was given    *)
(* and inside the given folder, which exists, otherwise; the recording's   *)
(* download_path equals the returned destination path and its              *)
(* last_downloaded_at is set.                                              *)
(***************************************************************************)
C15_DownloadRecorded ==
    (last.op = "download" /\ last.code = 200) =>
       /\ last.destination_path \in copies
       /\ last.destination_path.folder \in folders
       /\ last.destination_path.folder =
             (IF last.download_folder = None THEN DefaultFolder
              ELSE last.download_folder[1])
       /\ \A r \in ById(video_recordings, last.rid) :
             /\ StoredDownload(r) # None
             /\ StoredDownload(r)[1].download_path = last.destination_path

C17_AggregationNeverFails ==
    (last.op = "results" /\ get_session_by_id(last.session_id, last.user_id) # {}) =>
       /\ last.code = 200
       /\ LET recordings == RecordingsOf(last.session_id)
              payload == last.results
          IN /\ recordings = {} =>
                   /\ payload.video_recording.exists = FALSE
                   /\ payload.video_recording.processing_status = None
                   /\ payload.video_recording.download_available = None
                   /\ payload.video_analysis = None
             /\ (recordings # {} /\ ResultsOf(First(recordings).id) = {}) =>
                   /\ payload.video_recording.exists = TRUE
                   /\ payload.video_recording.processing_status =
                         Some(First(recordings).processing_status)
                   /\ payload.video_analysis = None

\* the owner read the results of a session whose recording failed and has
\* no analysis row
C17_Witness ==
    /\ last.op = "results"
    /\ last.code = 200
    /\ last.results.video_recording.processing_status = Some("failed")
    /\ last.results.video_analysis = None
    /\ \E r \in RecordingsOf(last.session_id) : ResultsOf(r.id) = {}

(***************************************************************************)
(* C18: session data is returned only for a session owned by the user who  *)
(* asks; a request for a session of another user fails and reveals no      *)
(* scores, responses, recording or analysis of that session.               *)
(***************************************************************************)
C18_OnlyOwnerReadsResults ==
    [][\A u \in Users : \A s \in 1..(MaxEnhSessions + 1) :
          (/\ GetSessionResults(s)
           /\ \A e \in ById(enhanced_sessions, s) : e.user_id # u)
          => last'.code # 200]_vars

(***************************************************************************)
(* C19: after the owner has deleted a session the session row is gone, no  *)
(* response, recording or analysis row of that session remains, every      *)
(* recording file is removed unless its removal failed, and the call       *)
(* confirms the deletion even when a removal failed.                       *)
(***************************************************************************)
C19_DeleteRemovesEverything ==
    (last.op = "delete" /\ last.code = 200) =>
       /\ ById(assessment_sessions, last.session_id) = {}
       /\ {a \in assessment_responses : a.session_id = last.session_id} = {}
       /\ RecordingsOf(last.session_id) = {}
       /\ \A rid \in last.recording_ids :
             ById(video_recordings, rid) = {} /\ ResultsOf(rid) = {}
       /\ files \cap last.on_disk = last.remove_failed
       /\ last.detail = "Assessment session deleted successfully"

\* a session with a response, a recording and an analysis row was deleted
\* although the removal of the recording's file failed
C19_Witness ==
    /\ last.op = "delete"
    /\ last.code = 200
    /\ last.response_rows > 0
    /\ last.recording_ids # {}
    /\ last.analysis_rows > 0
    /\ last.remove_failed # {}
    /\ assessment_sessions = {}

(***************************************************************************)
(* C20: a state-changing operation on a session, invoked by a user who is  *)
(* not the session's owner, is rejected with an error (not found or        *)
(* forbidden) and leaves the session and its rows unchanged.  The enhanced *)
(* submit routes take no caller identity, so a submit may come from any    *)
(* user.                                                                   *)
(***************************************************************************)
C20_NonOwnerRejected ==
    [][\A u \in Users : \A s \in 1..MaxEnhSessions : \A r \in Submissions :
          (/\ \E e \in ById(enhanced_sessions, s) : e.user_id # u
           /\ \/ SubmitAssessmentSession(s, r)
              \/ ApiSubmitAssessmentSession(s, r))
          => /\ last'.code >= 400
             /\ UNCHANGED <<enhanced_sessions, enhanced_responses>>]_vars

(***************************************************************************)
(* C21: nothing retries a failed analysis by itself.  Once a recording is  *)
(* "failed" its row (status and stored error text) stays as it is in every *)
(* later state unless a task that a caller dispatched for it starts.       *)
(***************************************************************************)
C21_FailedUntilDispatchRuns ==
    [][\A r \in video_recordings :
          (r.processing_status = "failed" /\ r \notin video_recordings')
             => \E t \in BagToSet(background_tasks) :
                   /\ t.recording_id = r.id
                   /\ t.pc = "queued"
                   /\ last' = Outcome("task_start", 0, r.id, "failed")
                   /\ ~BagIn(t, background_tasks')]_vars

(***************************************************************************)
(* C22: an analyzer failure is absorbed into the recording's stored        *)
(* status.  The dispatching request has answered with success before the   *)
(* analysis ran, and the failure is read back from the recording: the      *)
(* status reader, asked by the owner about a recording whose analysis      *)
(* failed, answers with status "failed" and a non-empty error_message.     *)
(***************************************************************************)
C22_FailureReadFromRecording ==
    (last.op = "status" /\ last.code \notin {403, 404} /\ last.before = "failed")
        => /\ last.code = 200
           /\ last.body # None
           /\ last.body[1].processing_status = "failed"
           /\ last.body[1].error_message # ""

C24_EmotionsSumToOne ==
    last.op \in {"analyze_video_mock", "generate_mock_video_analysis"}
        => Abs(SumOver(last.emotional_analysis, Emotions) - 100) <= 1

(***************************************************************************)
(* C25: processing a live frame never hands an error to the caller.        *)
(* Whenever detection or the face analyzer fails or finds no usable face,  *)
(* the result is the synthesized fallback, and every result has the shape  *)
(* of a real one: an emotions mapping, dominant_emotion, age and gender.   *)
(***************************************************************************)
C25_FrameNeverRaises ==
    last.op \in {"process_frame", "detect_emotion_from_face"}
        => /\ ~last.outcome.raised
           /\ DOMAIN last.outcome.value = ResultKeys
           /\ DOMAIN last.outcome.value.emotions # {}
           /\ last.failed => last.outcome.value = last.fallback

\* the face analyzer raised and the caller holds the fallback
C25_Witness ==
    /\ last.op = "detect_emotion_from_face"
    /\ last.input = "raise"
    /\ last.failed
    /\ ~last.outcome.raised
    /\ last.outcome.value = last.fallback

(***************************************************************************)
(* C26: every dispatched analysis runs to completion or failure.  Under    *)
(* fair scheduling of the background tasks, a recording with a dispatched  *)
(* analysis eventually is "completed" or "failed"; it does not stay        *)
(* "pending" or "processing" forever.                                      *)
(***************************************************************************)
C26_DispatchedEventuallyFinal ==
    \A r \in 1..MaxRecordings :
        (\E t \in BagToSet(background_tasks) : t.recording_id = r)
            ~> (/\ ById(video_recordings, r) # {}
                /\ StatusOf(r) \in {"completed", "failed"})

\* the last dispatched analysis of a recording has ended and left it final
C26_Witness ==
    /\ last.op \in {"task_success", "task_failure"}
    /\ background_tasks = EmptyBag
    /\ ById(video_recordings, last.rid) # {}
    /\ StatusOf(last.rid) \in {"completed", "failed"}

(***************************************************************************)
(* Readers of the background-task queue.                                   *)
(***************************************************************************)
\* the analysis runs in progress for a recording
RunsInProgress(recording_id) ==
    LET running == {t \in BagToSet(background_tasks) :
                       t.recording_id = recording_id /\ t.pc = "analyzing"}
    IN SumOver([t \in running |-> CopiesIn(t, background_tasks)], running)

(***************************************************************************)
(* C27: dispatch is exclusive per recording.  A dispatch for a recording   *)
(* that is already "processing" or "completed" is not accepted as a new    *)
(* run, and two analysis runs for the same recording are never in progress *)
(* at the same time.                                                       *)
(***************************************************************************)
C27_DispatchExclusive ==
    /\ (last.op = "analyze" /\ last.before \in {"processing", "completed"})
          => /\ last.code # 200
             /\ \A t \in BagToSet(background_tasks) :
                   ~(t.recording_id = last.rid /\ t.pc = "queued"
                        /\ t.dispatched_on = last.before)
    /\ \A r \in video_recordings : RunsInProgress(r.id) <= 1

(***************************************************************************)
(* C28: after any scoring of a session whose questions all have            *)
(* non-negative point values, 0 <= total_score <= max_score, and therefore *)
(* 0 <= percentage <= 100.  The point values of the model's questions are  *)
(* all positive.                                                           *)
(***************************************************************************)
C28_ScoreWithinBounds ==
    \A t \in ScoredTriples :
        /\ 0 <= t.total_score
        /\ t.total_score <= t.max_score
        /\ t.percentage.den > 0
        /\ 0 <= t.percentage.num
        /\ t.percentage.num <= 100 * t.percentage.den

(***************************************************************************)
(* C29: in the enhanced scoring, a submitted response whose question_id    *)
(* does not resolve to a question is skipped entirely.  No response row is *)
(* stored for it and it adds nothing to total_score or max_score; the      *)
(* other responses are scored and the session is still completed.          *)
(***************************************************************************)
C29_UnresolvedSkipped ==
    [][(req = NoReq /\ last'.op = "scored")
          => LET responses == req'.responses
                 added == enhanced_responses' \ enhanced_responses
                 session == First(ById(enhanced_sessions', req'.session_id))
             IN /\ Cardinality(added) = Cardinality(Answered(responses))
                /\ \A row \in added :
                      /\ row.session_id = req'.session_id
                      /\ ById(enhanced_questions, row.question_id) # {}
                /\ enhanced_responses \subseteq enhanced_responses'
                /\ session.status = "completed"
                /\ session.total_score = EarnedPoints(responses)
                /\ session.max_score = AnsweredPoints(responses)]_vars

\* a scored submission with one response that resolves and one that does not
C29_Witness ==
    /\ last.op = "scored"
    /\ Answered(req.responses) # {}
    /\ Answered(req.responses) # 1..Len(req.responses)
    /\ ScoredSessionOfReq.status = "completed"
    /\ \A row \in enhanced_responses : ById(enhanced_questions, row.question_id) # {}

(***************************************************************************)
(* C30: in the live-capture endpoints, a process-frame call made while     *)
(* capture is not running returns an error and changes neither the latest  *)
(* emotion nor the captured list; while capture is running each successful *)
(* process-frame call appends exactly one entry whose frame_count equals   *)
(* the new list length; and start-capture while already running leaves the *)
(* captured list and the latest emotion unchanged.                         *)
(***************************************************************************)
C30_CaptureGuards ==
    [][/\ \A frame_data \in FrameRequests, draw \in CaptureDraws :
            (ProcessFrameEndpoint(frame_data, draw) /\ ~capture_running)
               => /\ last'.error # ""
                  /\ UNCHANGED <<latest_emotion, latest_emotions_list>>
       /\ ProcessFrameAppend
            => /\ Len(latest_emotions_list') = Len(latest_emotions_list) + 1
               /\ latest_emotions_list'[Len(latest_emotions_list')].frame_count
                     = Len(latest_emotions_list')
       /\ (StartCapture /\ capture_running)
            => UNCHANGED <<latest_emotion, latest_emotions_list>>]_vars

====
